---- MODULE Spec2Model ----
(***************************************************************************)
(* A model of scripts/validate_spec.py, the SDD specification validator.   *)
(*                                                                         *)
(* The five YAML documents and the JSON schema on disk are the environment *)
(* (variable files).  validate_spec() is a straight-line function; each of *)
(* its numbered sections is one action, and pc is the section it is about  *)
(* to run.                                                                 *)
(*                                                                         *)
(* Encoding of Python values:                                              *)
(*   - a string whose characters matter (an identifier) is a sequence of   *)
(*     one-character strings, so that str.startswith is computed;          *)
(*   - a dict (a catalog entity, a mapping record) is a function whose     *)
(*     DOMAIN is the set of keys present;                                  *)
(*   - a parsed document is [kind, items]: what load_yaml/load_json        *)
(*     returned and, for a list under the expected key, its items;         *)
(*   - a formatted error message is [msg, id]: the literal text and the    *)
(*     identifier substituted at its end.                                  *)
(***************************************************************************)
EXTENDS Naturals, Sequences, FiniteSets, TLC

VARIABLES files, pc, schema, standards_data, properties_data, tools_data,
          catalog, integrity_errors, errors, out, ret

vars == <<files, pc, schema, standards_data, properties_data, tools_data,
          catalog, integrity_errors, errors, out, ret>>

-----------------------------------------------------------------------------
(* Strings *)

StdA == <<"s", "t", "d", ":", "a">>
PropA == <<"p", "r", "o", "p", ":", "a">>
ToolA == <<"t", "o", "o", "l", ":", "a">>
BadId == <<"b", "a", "d">>
EmptyStr == << >>
\* How an f-string renders None.
NoneStr == <<"N", "o", "n", "e">>

StdPrefix == <<"s", "t", "d", ":">>
PropPrefix == <<"p", "r", "o", "p", ":">>
ToolPrefix == <<"t", "o", "o", "l", ":">>

\* str.startswith
StartsWith(s, prefix) ==
    /\ Len(s) >= Len(prefix)
    /\ SubSeq(s, 1, Len(prefix)) = prefix

-----------------------------------------------------------------------------
(* Python values *)

EmptyDict == [k \in {} |-> << >>]

\* key in d
Has(d, key) == key \in DOMAIN d

\* d.get(key, default)
DictGet(d, key, default) == IF Has(d, key) THEN d[key] ELSE default

\* A parsed document.  kind is
\*   "LoadFailed"  the loader returned None (file missing, syntax error)
\*   "EmptyMap"    the document is the empty mapping {}
\*   "NoKey"       a non-empty mapping without the expected top-level key
\*   "NullValue"   the expected key is present and its value is null
\*   "List"        the expected key holds the list items
\*   "Ok"          (schema only) a non-empty JSON object
Doc(kind, items) == [kind |-> kind, items |-> items]

\* The value of catalog[key]: None, or a list.
PyNone == [none |-> TRUE, items |-> << >>]
PyList(items) == [none |-> FALSE, items |-> items]

\* bool(doc) for what a loader returned: None and {} are falsy.
Truthy(doc) == doc.kind \notin {"LoadFailed", "EmptyMap"}

\* doc.get(key, []) on a truthy document
GetList(doc) ==
    IF doc.kind = "NullValue" THEN PyNone
    ELSE IF doc.kind = "List" THEN PyList(doc.items)
    ELSE PyList(<< >>)

\* An error message: the text and the identifier formatted into it.
Msg(text, id) == [msg |-> text, id |-> id]

-----------------------------------------------------------------------------
(* Inputs *)

\* The corpus on disk holds at most MaxItems items: a list item, or a document
\* that is not a list (missing, empty, without its key, null under its key),
\* counts for one.  Entities and records are dicts whose values are strings;
\* the key of a cross-reference document, when present, holds a list.
MaxItems == 3

StdEntities == {[id |-> StdA], [id |-> BadId], EmptyDict}
ToolEntities == {[id |-> ToolA], [id |-> BadId], EmptyDict}
PropEntities ==
    {[id |-> PropA], [id |-> BadId], EmptyDict,
     [id |-> PropA, verification_type |-> "library"],
     [id |-> PropA, verification_type |-> "bogus"],
     [id |-> PropA, verification_type |-> ""],
     [verification_type |-> "bogus"]}
MappingRecords ==
    {[property_id |-> PropA, standard_id |-> StdA],
     [property_id |-> StdA, standard_id |-> PropA],
     [property_id |-> PropA], [standard_id |-> StdA],
     [property_id |-> EmptyStr, standard_id |-> StdA],
     EmptyDict}
VerificationRecords ==
    {[property_id |-> PropA, tool_id |-> ToolA],
     [property_id |-> PropA], [tool_id |-> ToolA],
     [property_id |-> PropA, tool_id |-> EmptyStr],
     EmptyDict}

\* The schema documents of weight n.
SchemaDocs(n) ==
    IF n = 0 THEN {Doc("Ok", << >>)}
    ELSE IF n = 1 THEN {Doc("LoadFailed", << >>), Doc("EmptyMap", << >>)}
    ELSE {}

\* The documents of weight n: a list of n items, or (weight 1) a document
\* without a usable list.
ListDocs(E, n, others) ==
    {Doc("List", s) : s \in [1..n -> E]}
        \cup (IF n = 1 THEN {Doc(k, << >>) : k \in others} ELSE {})

CatalogDocs(E, n) ==
    ListDocs(E, n, {"LoadFailed", "EmptyMap", "NoKey", "NullValue"})

RefDocs(E, n) == ListDocs(E, n, {"LoadFailed", "NoKey"})

Splits ==
    {k \in [1..6 -> 0..MaxItems] :
        k[1] + k[2] + k[3] + k[4] + k[5] + k[6] <= MaxItems}

Files ==
    UNION {[schema : SchemaDocs(k[1]),
            standards : CatalogDocs(StdEntities, k[2]),
            properties : CatalogDocs(PropEntities, k[3]),
            tools : CatalogDocs(ToolEntities, k[4]),
            mappings : RefDocs(MappingRecords, k[5]),
            verifications : RefDocs(VerificationRecords, k[6])] : k \in Splits}

-----------------------------------------------------------------------------
(* Functions *)

load_yaml(path) == files[path]

load_json(path) == files[path]

collect_ids(value, id_field) ==
    IF ~value.none /\ value.items # << >>
    THEN {value.items[i][id_field] :
            i \in {j \in DOMAIN value.items : Has(value.items[j], id_field)}}
    ELSE {}

\* The body of the loop over prop_to_std["mappings"].
MappingErrors(mapping, properties, standards) ==
    (IF /\ Has(mapping, "property_id")
        /\ mapping.property_id # EmptyStr
        /\ mapping.property_id \notin properties
     THEN <<Msg("Mapping references unknown property", mapping.property_id)>>
     ELSE << >>)
    \o
    (IF /\ Has(mapping, "standard_id")
        /\ mapping.standard_id # EmptyStr
        /\ mapping.standard_id \notin standards
     THEN <<Msg("Mapping references unknown standard", mapping.standard_id)>>
     ELSE << >>)

\* The body of the loop over verifications["verifications"].
VerificationErrors(v, properties, tools) ==
    (IF /\ Has(v, "property_id")
        /\ v.property_id # EmptyStr
        /\ v.property_id \notin properties
     THEN <<Msg("Verification references unknown property", v.property_id)>>
     ELSE << >>)
    \o
    (IF /\ Has(v, "tool_id")
        /\ v.tool_id # EmptyStr
        /\ v.tool_id \notin tools
     THEN <<Msg("Verification references unknown tool", v.tool_id)>>
     ELSE << >>)

\* A for loop over a list: appended[i] is what the body appends to errors for
\* the i-th item, and the loop appends them item after item.
RECURSIVE ForEach(_)
ForEach(appended) ==
    IF appended = << >> THEN << >>
    ELSE Head(appended) \o ForEach(Tail(appended))

\* `doc and key in doc`
Usable(doc) == Truthy(doc) /\ doc.kind # "NoKey"

\* A faulty variant: the verification records are walked before the mapping
\* records.
IntegrityVerificationsFirst(cat) ==
    LET standards == collect_ids(cat.standards, "id")
        tools == collect_ids(cat.tools, "id")
        properties == collect_ids(cat.properties, "id")
        prop_to_std == load_yaml("mappings")
        verifications == load_yaml("verifications")
        MappingLoop ==
            ForEach([i \in DOMAIN prop_to_std.items |->
                MappingErrors(prop_to_std.items[i], properties, standards)])
        VerificationLoop ==
            ForEach([i \in DOMAIN verifications.items |->
                VerificationErrors(verifications.items[i], properties, tools)])
    IN  (IF Usable(verifications)
         THEN VerificationLoop
         ELSE << >>)
        \o
        (IF Usable(prop_to_std) THEN MappingLoop ELSE << >>)

\* A faulty variant: an unusable mappings document ends the function at once
\* (`if not prop_to_std or "mappings" not in prop_to_std: return errors`).
IntegrityReturnsEarly(cat) ==
    LET standards == collect_ids(cat.standards, "id")
        tools == collect_ids(cat.tools, "id")
        properties == collect_ids(cat.properties, "id")
        prop_to_std == load_yaml("mappings")
        verifications == load_yaml("verifications")
        MappingLoop ==
            ForEach([i \in DOMAIN prop_to_std.items |->
                MappingErrors(prop_to_std.items[i], properties, standards)])
        VerificationLoop ==
            ForEach([i \in DOMAIN verifications.items |->
                VerificationErrors(verifications.items[i], properties, tools)])
    IN  IF ~Usable(prop_to_std) THEN << >>
        ELSE MappingLoop
             \o
             (IF Usable(verifications)
              THEN VerificationLoop
              ELSE << >>)

validate_referential_integrity(cat) ==
    LET standards == collect_ids(cat.standards, "id")
        tools == collect_ids(cat.tools, "id")
        properties == collect_ids(cat.properties, "id")
        prop_to_std == load_yaml("mappings")
        verifications == load_yaml("verifications")
        MappingLoop ==
            ForEach([i \in DOMAIN prop_to_std.items |->
                MappingErrors(prop_to_std.items[i], properties, standards)])
        VerificationLoop ==
            ForEach([i \in DOMAIN verifications.items |->
                VerificationErrors(verifications.items[i], properties, tools)])
    IN  (IF Usable(prop_to_std) THEN MappingLoop ELSE << >>)
        \o
        (IF Usable(verifications)
         THEN VerificationLoop
         ELSE << >>)

-----------------------------------------------------------------------------
(* validate_spec *)

NoCatalog == [standards |-> PyNone, properties |-> PyNone, tools |-> PyNone]
NotLoaded == Doc("LoadFailed", << >>)
NoOutput == [loaded |-> << >>, failed |-> << >>, passed |-> << >>]

Init ==
    /\ files \in Files
    /\ pc = "load_schema"
    /\ schema = NotLoaded
    /\ standards_data = NotLoaded
    /\ properties_data = NotLoaded
    /\ tools_data = NotLoaded
    /\ catalog = NoCatalog
    /\ integrity_errors = << >>
    /\ errors = << >>
    /\ out = NoOutput
    /\ ret = "None"

\* 1. Load schema
LoadSchema ==
    /\ pc = "load_schema"
    /\ schema' = load_json("schema")
    /\ IF ~Truthy(schema')
       THEN /\ errors' = Append(errors, Msg("Failed to load schema", EmptyStr))
            /\ ret' = "False"
            /\ pc' = "returned"
       ELSE /\ pc' = "load_catalogs"
            /\ UNCHANGED <<errors, ret>>
    /\ UNCHANGED <<files, standards_data, properties_data, tools_data,
                   catalog, integrity_errors, out>>

\* A faulty variant: `if not any([...])`, so one catalog that loaded lets the
\* run go on.
LoadCatalogsAny ==
    /\ pc = "load_catalogs"
    /\ standards_data' = load_yaml("standards")
    /\ properties_data' = load_yaml("properties")
    /\ tools_data' = load_yaml("tools")
    /\ IF ~(Truthy(standards_data') \/ Truthy(properties_data')
               \/ Truthy(tools_data'))
       THEN /\ errors' =
                Append(errors, Msg("Failed to load catalog files", EmptyStr))
            /\ ret' = "False"
            /\ pc' = "returned"
       ELSE /\ pc' = "build_catalog"
            /\ UNCHANGED <<errors, ret>>
    /\ UNCHANGED <<files, schema, catalog, integrity_errors, out>>

\* 2. Load catalog files
LoadCatalogs ==
    /\ pc = "load_catalogs"
    /\ standards_data' = load_yaml("standards")
    /\ properties_data' = load_yaml("properties")
    /\ tools_data' = load_yaml("tools")
    /\ IF ~(Truthy(standards_data') /\ Truthy(properties_data')
               /\ Truthy(tools_data'))
       THEN /\ errors' =
                Append(errors, Msg("Failed to load catalog files", EmptyStr))
            /\ ret' = "False"
            /\ pc' = "returned"
       ELSE /\ pc' = "build_catalog"
            /\ UNCHANGED <<errors, ret>>
    /\ UNCHANGED <<files, schema, catalog, integrity_errors, out>>

\* The counts printed by the three prints of len(catalog[...]), in order, up
\* to the first value that is None: len(None) raises TypeError.
RECURSIVE PrintedCounts(_)
PrintedCounts(values) ==
    IF values = << >> \/ Head(values).none THEN << >>
    ELSE <<Len(Head(values).items)>> \o PrintedCounts(Tail(values))

\* Build catalog
BuildCatalog ==
    /\ pc = "build_catalog"
    /\ catalog' = [standards |-> GetList(standards_data),
                   properties |-> GetList(properties_data),
                   tools |-> GetList(tools_data)]
    /\ out' = [out EXCEPT !.loaded =
                  PrintedCounts(<<catalog'.standards, catalog'.properties,
                                  catalog'.tools>>)]
    /\ pc' = IF Len(out'.loaded) < 3 THEN "raised" ELSE "integrity"
    /\ UNCHANGED <<files, schema, standards_data, properties_data,
                   tools_data, integrity_errors, errors, ret>>

\* 3. Validate referential integrity
CheckIntegrity ==
    /\ pc = "integrity"
    /\ integrity_errors' = validate_referential_integrity(catalog)
    /\ errors' = errors \o integrity_errors'
    /\ pc' = "patterns"
    /\ UNCHANGED <<files, schema, standards_data, properties_data,
                   tools_data, catalog, out, ret>>

PatternError(text, prefix, entity) ==
    IF ~StartsWith(DictGet(entity, "id", EmptyStr), prefix)
    THEN <<Msg(text, DictGet(entity, "id", NoneStr))>>
    ELSE << >>

StandardPattern(std) ==
    PatternError("Standard ID must start with 'std:'", StdPrefix, std)

PropertyPattern(prop) ==
    PatternError("Property ID must start with 'prop:'", PropPrefix, prop)

\* A faulty variant: the tool loop copied from the standard loop with its
\* prefix left as 'std:'.
ToolPatternStdPrefix(tool) ==
    PatternError("Tool ID must start with 'tool:'", StdPrefix, tool)

ToolPattern(tool) ==
    PatternError("Tool ID must start with 'tool:'", ToolPrefix, tool)

\* The three loops of section 4.
StandardPatterns(items) ==
    ForEach([i \in DOMAIN items |-> StandardPattern(items[i])])

PropertyPatterns(items) ==
    ForEach([i \in DOMAIN items |-> PropertyPattern(items[i])])

ToolPatterns(items) == ForEach([i \in DOMAIN items |-> ToolPattern(items[i])])

\* A faulty variant: the pattern checks are skipped once the resolver has
\* reported an error.
CheckPatternsUnlessErrors ==
    /\ pc = "patterns"
    /\ errors' =
          IF errors # << >> THEN errors
          ELSE errors \o StandardPatterns(catalog.standards.items)
                      \o PropertyPatterns(catalog.properties.items)
                      \o ToolPatterns(catalog.tools.items)
    /\ pc' = "vtypes"
    /\ UNCHANGED <<files, schema, standards_data, properties_data,
                   tools_data, catalog, integrity_errors, out, ret>>

\* 4. Validate patterns
CheckPatterns ==
    /\ pc = "patterns"
    /\ errors' = errors \o StandardPatterns(catalog.standards.items)
                        \o PropertyPatterns(catalog.properties.items)
                        \o ToolPatterns(catalog.tools.items)
    /\ pc' = "vtypes"
    /\ UNCHANGED <<files, schema, standards_data, properties_data,
                   tools_data, catalog, integrity_errors, out, ret>>

valid_types == {"library", "custom_property", "ai_audit", "manual"}

VerificationTypeError(prop) ==
    IF /\ Has(prop, "verification_type")
       /\ prop.verification_type # ""
       /\ prop.verification_type \notin valid_types
    THEN <<Msg("Invalid verification_type '" \o prop.verification_type
                   \o "' in", DictGet(prop, "id", NoneStr))>>
    ELSE << >>

\* The loop of section 5.
VerificationTypeErrors(items) ==
    ForEach([i \in DOMAIN items |-> VerificationTypeError(items[i])])

\* 5. Check verification types
CheckVerificationTypes ==
    /\ pc = "vtypes"
    /\ errors' = errors \o VerificationTypeErrors(catalog.properties.items)
    /\ pc' = "summary"
    /\ UNCHANGED <<files, schema, standards_data, properties_data,
                   tools_data, catalog, integrity_errors, out, ret>>

\* A faulty variant: the verdict looks at the resolver's errors only
\* (`if integrity_errors:`).
SummaryIntegrityOnly ==
    /\ pc = "summary"
    /\ IF integrity_errors # << >>
       THEN /\ out' = [out EXCEPT !.failed = errors]
            /\ ret' = "False"
       ELSE /\ out' = [out EXCEPT !.passed =
                          <<Len(catalog.standards.items),
                            Len(catalog.properties.items),
                            Len(catalog.tools.items)>>]
            /\ ret' = "True"
    /\ pc' = "returned"
    /\ UNCHANGED <<files, schema, standards_data, properties_data,
                   tools_data, catalog, integrity_errors, errors>>

\* Summary
Summary ==
    /\ pc = "summary"
    /\ IF errors # << >>
       THEN /\ out' = [out EXCEPT !.failed = errors]
            /\ ret' = "False"
       ELSE /\ out' = [out EXCEPT !.passed =
                          <<Len(catalog.standards.items),
                            Len(catalog.properties.items),
                            Len(catalog.tools.items)>>]
            /\ ret' = "True"
    /\ pc' = "returned"
    /\ UNCHANGED <<files, schema, standards_data, properties_data,
                   tools_data, catalog, integrity_errors, errors>>

Next ==
    \/ LoadSchema
    \/ LoadCatalogs
    \/ BuildCatalog
    \/ CheckIntegrity
    \/ CheckPatterns
    \/ CheckVerificationTypes
    \/ Summary

Spec == Init /\ [][Next]_vars

-----------------------------------------------------------------------------
(* Vocabulary of the properties *)

\* validate_spec got past loading (the entity counts were printed) and
\* returned.
Finished == pc = "returned" /\ out.loaded # << >>

\* validate_spec returned or raised.
Terminal == pc \in {"returned", "raised"}

Count(seq, x) == Cardinality({k \in DOMAIN seq : seq[k] = x})

\* s begins with p, character by character.
HasPrefix(s, p) == Len(s) >= Len(p) /\ \A k \in 1..Len(p) : s[k] = p[k]

\* The items of a document on disk.
Items(path) == files[path].items

\* The identifiers a catalog document declares.
DeclaredIds(path) ==
    {Items(path)[i].id :
        i \in {j \in DOMAIN Items(path) : "id" \in DOMAIN Items(path)[j]}}

RefValues == {StdA, PropA, ToolA, BadId, EmptyStr}

\* Document, reference field, namespace, message of the four reference checks.
RefChecks ==
    {<<"mappings", "property_id", "properties",
       "Mapping references unknown property">>,
     <<"mappings", "standard_id", "standards",
       "Mapping references unknown standard">>,
     <<"verifications", "property_id", "properties",
       "Verification references unknown property">>,
     <<"verifications", "tool_id", "tools",
       "Verification references unknown tool">>}

\* Catalog, required prefix, message of the three prefix rules.
PrefixRules ==
    {<<"standards", StdPrefix, "Standard ID must start with 'std:'">>,
     <<"properties", PropPrefix, "Property ID must start with 'prop:'">>,
     <<"tools", ToolPrefix, "Tool ID must start with 'tool:'">>}

MappingTexts ==
    {"Mapping references unknown property",
     "Mapping references unknown standard"}
VerificationTexts ==
    {"Verification references unknown property",
     "Verification references unknown tool"}
IsMappingMsg(e) == e.msg \in MappingTexts
IsVerificationMsg(e) == e.msg \in VerificationTexts
IsResolverMsg(e) == IsMappingMsg(e) \/ IsVerificationMsg(e)
IsRuleMsg(e) == ~IsResolverMsg(e)

\* The places of the corpus where the validator reports: <<phase, index,
\* slot>>.  Phase 1 is the mappings document and 2 the verifications document
\* (slot 1 the property reference, slot 2 the other one); 3, 4 and 5 are the
\* prefix rule on standards, properties and tools; 6 is the enumeration rule.
\* A reference is reported when it is present, non-empty and undeclared; an
\* entity without an identifier is tested as the empty identifier.
RefText(phase, slot) ==
    IF phase = 1
    THEN (IF slot = 1 THEN "Mapping references unknown property"
          ELSE "Mapping references unknown standard")
    ELSE (IF slot = 1 THEN "Verification references unknown property"
          ELSE "Verification references unknown tool")
RefDoc(phase) == IF phase = 1 THEN "mappings" ELSE "verifications"
RefField(phase, slot) ==
    IF slot = 1 THEN "property_id"
    ELSE IF phase = 1 THEN "standard_id" ELSE "tool_id"
RefNamespace(phase, slot) ==
    IF slot = 1 THEN "properties"
    ELSE IF phase = 1 THEN "standards" ELSE "tools"
RuleCatalog(phase) ==
    IF phase = 3 THEN "standards"
    ELSE IF phase = 5 THEN "tools" ELSE "properties"
RulePrefix(phase) ==
    IF phase = 3 THEN StdPrefix
    ELSE IF phase = 4 THEN PropPrefix ELSE ToolPrefix
RuleText(phase) ==
    IF phase = 3 THEN "Standard ID must start with 'std:'"
    ELSE IF phase = 4 THEN "Property ID must start with 'prop:'"
    ELSE "Tool ID must start with 'tool:'"
IdOr(entity, default) == IF "id" \in DOMAIN entity THEN entity.id ELSE default

ResolverPlaces ==
    {p \in UNION {{<<ph, i, sl>> : i \in DOMAIN Items(RefDoc(ph)), sl \in 1..2}
                     : ph \in 1..2} :
        LET rec == Items(RefDoc(p[1]))[p[2]]
            f == RefField(p[1], p[3])
        IN  /\ f \in DOMAIN rec
            /\ rec[f] # EmptyStr
            /\ rec[f] \notin DeclaredIds(RefNamespace(p[1], p[3]))}

PrefixPlaces ==
    {p \in UNION {{<<ph, i, 1>> : i \in DOMAIN Items(RuleCatalog(ph))}
                     : ph \in 3..5} :
        ~HasPrefix(IdOr(Items(RuleCatalog(p[1]))[p[2]], EmptyStr),
                   RulePrefix(p[1]))}

EnumPlaces ==
    {p \in {<<6, i, 1>> : i \in DOMAIN Items("properties")} :
        LET prop == Items("properties")[p[2]]
        IN  /\ "verification_type" \in DOMAIN prop
            /\ prop.verification_type # ""
            /\ prop.verification_type \notin valid_types}

RulePlaces == PrefixPlaces \cup EnumPlaces

PlaceMsg(p) ==
    IF p[1] <= 2
    THEN Msg(RefText(p[1], p[3]),
             Items(RefDoc(p[1]))[p[2]][RefField(p[1], p[3])])
    ELSE IF p[1] <= 5
    THEN Msg(RuleText(p[1]), IdOr(Items(RuleCatalog(p[1]))[p[2]], NoneStr))
    ELSE Msg("Invalid verification_type '"
                 \o Items("properties")[p[2]].verification_type \o "' in",
             IdOr(Items("properties")[p[2]], NoneStr))

\* Document order: phase, then record, then field.
Before(p, q) ==
    \/ p[1] < q[1]
    \/ p[1] = q[1] /\ p[2] < q[2]
    \/ p[1] = q[1] /\ p[2] = q[2] /\ p[3] < q[3]

\* The messages of a set of places, in document order.
InOrder(places) ==
    [k \in 1..Cardinality(places) |->
        PlaceMsg(CHOOSE p \in places :
                    Cardinality({q \in places : Before(q, p)}) = k - 1)]

-----------------------------------------------------------------------------
(* C1: every reference field of a mapping or verification record that is   *)
(* present and does not resolve in its namespace yields exactly one         *)
(* Violation naming the identifier and the namespace; a reference that      *)
(* resolves, or an absent field, yields none.  For each of the four         *)
(* reference checks and each identifier x, the report holds as many         *)
(* messages naming x as there are records whose field is x with x           *)
(* undeclared.  The code does not report a present, empty reference.        *)
C1_PresentDanglingReferenceReported ==
    Finished =>
        \A r \in RefChecks : \A x \in RefValues :
            Count(errors, Msg(r[4], x)) =
                Cardinality({i \in DOMAIN Items(r[1]) :
                                /\ r[2] \in DOMAIN Items(r[1])[i]
                                /\ Items(r[1])[i][r[2]] = x
                                /\ x \notin DeclaredIds(r[3])})

(* C2: the verdict is a function of the accumulated errors alone: whenever  *)
(* validate_spec returns, it returns False iff errors is non-empty and True *)
(* iff errors is empty.                                                     *)
C2_VerdictFromErrors ==
    pc = "returned" =>
        /\ ret \in {"True", "False"}
        /\ ret = "False" <=> errors # << >>
        /\ ret = "True" <=> errors = << >>

\* A run with rule violations only has returned False.
C2_Witness ==
    /\ Finished
    /\ ret = "False"
    /\ integrity_errors = << >>
    /\ errors # << >>

(* C3: when the schema or one of the three catalogs fails to load, the run  *)
(* aborts before the resolver or the rule checker runs: it never reaches    *)
(* the integrity, pattern, verification-type or summary sections, prints    *)
(* neither counts nor violations, and returns False.                        *)
LoadFailure ==
    \/ files.schema.kind = "LoadFailed"
    \/ files.standards.kind = "LoadFailed"
    \/ files.properties.kind = "LoadFailed"
    \/ files.tools.kind = "LoadFailed"

C3_LoadFailureAborts ==
    LoadFailure =>
        /\ pc \in {"load_schema", "load_catalogs", "returned"}
        /\ integrity_errors = << >>
        /\ \A k \in DOMAIN errors :
              errors[k].msg \in {"Failed to load schema",
                                 "Failed to load catalog files"}
        /\ out = NoOutput
        /\ pc = "returned" => ret = "False"

\* The tools catalog failed to load while the standards catalog holds an
\* entity with a bad prefix; the run has returned.
C3_Witness ==
    /\ pc = "returned"
    /\ files.schema.kind = "Ok"
    /\ files.tools.kind = "LoadFailed"
    /\ \E i \in DOMAIN Items("standards") : Items("standards")[i] = [id |-> BadId]

(* C4: a catalog document that loaded, but lacks its top-level key or holds *)
(* an empty or null value under it, is an empty entity list and no error:   *)
(* when the schema and the three catalogs loaded, the run does not abort,   *)
(* reaches the summary, and the count printed for each catalog is the       *)
(* number of its entities (zero without a list).  The code aborts on {} and *)
(* raises on null.                                                          *)
C4_EmptyCatalogIsValid ==
    (/\ Terminal
     /\ files.schema.kind = "Ok"
     /\ files.standards.kind # "LoadFailed"
     /\ files.properties.kind # "LoadFailed"
     /\ files.tools.kind # "LoadFailed")
    =>
        /\ pc = "returned"
        /\ out.loaded = <<Len(Items("standards")), Len(Items("properties")),
                          Len(Items("tools"))>>
        /\ out.failed # << >> \/ out.passed # << >>

(* C5: a catalog item without an identifier field is silently skipped: no   *)
(* Violation of the run comes from it.  Such an item is the only source of  *)
(* a message that names None, so no reported message names None.  The code  *)
(* reports it under the prefix rule.                                        *)
C5_ItemWithoutIdSkipped ==
    Finished => \A k \in DOMAIN errors : errors[k].id # NoneStr

(* C6: every Property whose verification_type is present with a value       *)
(* outside the four valid ones yields one Violation identifying it; a valid *)
(* or absent verification_type yields none.  For each value and each        *)
(* rendered identifier, the report holds as many messages as there are      *)
(* properties with that value, invalid, and that identifier.  The code does *)
(* not report a present, empty verification_type.                           *)
C6_InvalidVerificationTypeReported ==
    Finished =>
        \A vt \in {"library", "bogus", ""} :
            \A id \in DeclaredIds("properties") \cup {NoneStr} :
                Count(errors, Msg("Invalid verification_type '" \o vt
                                      \o "' in", id)) =
                    Cardinality(
                        {i \in DOMAIN Items("properties") :
                            LET prop == Items("properties")[i]
                            IN  /\ "verification_type" \in DOMAIN prop
                                /\ prop.verification_type = vt
                                /\ vt \notin valid_types
                                /\ IdOr(prop, NoneStr) = id})

(* C7: every catalog entity whose identifier lacks the prefix of its type   *)
(* yields one Violation citing the identifier, whatever the mapping and     *)
(* verification records reference; an identifier with the prefix yields     *)
(* none.  For each catalog and each identifier x declared in it, the report *)
(* holds one prefix message citing x per entity named x when x lacks the    *)
(* prefix, and none when x has it.                                          *)
C7_PrefixRule ==
    Finished =>
        \A r \in PrefixRules : \A x \in DeclaredIds(r[1]) :
            Count(errors, Msg(r[3], x)) =
                IF HasPrefix(x, r[2]) THEN 0
                ELSE Cardinality({i \in DOMAIN Items(r[1]) :
                                     /\ "id" \in DOMAIN Items(r[1])[i]
                                     /\ Items(r[1])[i].id = x})

\* A tool with a bad identifier that no record references was reported, next
\* to a tool with a good identifier.
C7_Witness ==
    /\ Finished
    /\ \E i \in DOMAIN Items("tools") : Items("tools")[i] = [id |-> BadId]
    /\ \E i \in DOMAIN Items("tools") : Items("tools")[i] = [id |-> ToolA]
    /\ Count(errors, Msg("Tool ID must start with 'tool:'", BadId)) = 1
    /\ Count(errors, Msg("Tool ID must start with 'tool:'", ToolA)) = 0

(* C8: the final Violation sequence is ordered: the resolver's violations   *)
(* before the rule checker's, the mappings' before the verifications', in   *)
(* record order within a document; the sequence and the verdict are a       *)
(* function of the input documents.  The errors of a finished run are the   *)
(* messages of the reporting places in document order, the failure report   *)
(* prints them in that order, and the verdict is False iff there is one.    *)
C8_ViolationsInDocumentOrder ==
    Finished =>
        /\ errors = InOrder(ResolverPlaces \cup RulePlaces)
        /\ ret = (IF ResolverPlaces \cup RulePlaces = {} THEN "True"
                  ELSE "False")
        /\ ret = "False" => out.failed = errors

\* Both references of a mapping record, a verification record and a catalog
\* entity have each been reported.
C8_Witness ==
    /\ Finished
    /\ \E a, b, c, d \in DOMAIN errors :
          /\ a < b /\ b < c /\ c < d
          /\ IsMappingMsg(errors[a]) /\ IsMappingMsg(errors[b])
          /\ errors[a] # errors[b]
          /\ IsVerificationMsg(errors[c])
          /\ IsRuleMsg(errors[d])

(* C9: in every run that gets past loading every violation is collected:    *)
(* the final sequence is the resolver's violations followed by the rule     *)
(* checker's, none dropped, and each family is what it would be alone.  The *)
(* resolver messages of errors are integrity_errors, one per reporting      *)
(* reference; the rule messages are one per reporting entity, which depends *)
(* on the catalogs only; errors holds nothing else.                         *)
C9_FamiliesComposeAdditively ==
    Finished =>
        LET resolver == SelectSeq(errors, IsResolverMsg)
            rule == SelectSeq(errors, IsRuleMsg)
        IN  /\ resolver = integrity_errors
            /\ Len(integrity_errors) = Cardinality(ResolverPlaces)
            /\ Len(rule) = Cardinality(RulePlaces)
            /\ \A p \in RulePlaces : Count(rule, PlaceMsg(p)) >= 1
            /\ errors = integrity_errors \o rule
            /\ out.failed = errors

\* The resolver and both rule families each reported in one run.
C9_Witness ==
    /\ Finished
    /\ integrity_errors # << >>
    /\ PrefixPlaces # {}
    /\ EnumPlaces # {}
    /\ Len(errors) = 3

(* C10: a cross-reference document that fails to load, or lacks its         *)
(* top-level key, is not fatal and is no Violation: the run gets to its     *)
(* summary, the resolver reports nothing for that document, the other       *)
(* document and the rules are reported as usual, and the run can pass.      *)
Unusable(path) == files[path].kind \in {"LoadFailed", "NoKey"}

\* The schema and the three catalogs loaded, each catalog a non-empty mapping
\* whose key, if present, holds a list.
CatalogsLoaded ==
    /\ files.schema.kind = "Ok"
    /\ \A c \in {"standards", "properties", "tools"} :
          files[c].kind \in {"NoKey", "List"}

C10_UnusableCrossReferenceIgnored ==
    /\ (CatalogsLoaded /\ (Unusable("mappings") \/ Unusable("verifications")))
          => /\ pc # "raised"
             /\ pc = "returned" => out.failed # << >> \/ out.passed # << >>
    /\ (Finished /\ Unusable("mappings")) =>
          /\ SelectSeq(errors, IsMappingMsg) = << >>
          /\ errors = InOrder({p \in ResolverPlaces : p[1] = 2})
                          \o InOrder(RulePlaces)
    /\ (Finished /\ Unusable("verifications")) =>
          /\ SelectSeq(errors, IsVerificationMsg) = << >>
          /\ errors = InOrder({p \in ResolverPlaces : p[1] = 1})
                          \o InOrder(RulePlaces)

\* The mappings document failed to load, a verification record was checked
\* and resolved, an entity passed the rules, and the run passed.
C10_Witness ==
    /\ Finished
    /\ ret = "True"
    /\ files.mappings.kind = "LoadFailed"
    /\ Items("verifications") # << >>
    /\ Items("tools") # << >>

====
